---------------------------- MODULE Spec2Model ----------------------------
(***************************************************************************)
(* Model of the todo application's two context accessor hooks              *)
(* (frontend/src/hooks/useTask.ts, frontend/src/hooks/useUI.ts) and of the *)
(* backend cold start described by the code blocks of                     *)
(* backend/VERCEL_FIX_GUIDE.md (config.py, database.py, main.py,           *)
(* api/index.py).                                                          *)
(*                                                                         *)
(* Frontend: two Providers (environment of the hooks) hold a value each;   *)
(* a render pass is a run of accessor calls between two Provider changes.  *)
(* Backend: one serverless cold start, from loading api/index.py to the    *)
(* lifespan's shutdown.                                                    *)
(***************************************************************************)
EXTENDS Integers, Sequences, FiniteSets

VARIABLES
    taskProvider,   \* TaskProvider: [mounted, value]
    uiProvider,     \* UIProvider:   [mounted, value]
    calls,          \* accessor calls of the current render pass, in order
    prev,           \* last call of the previous render pass, with the Providers it saw
    pc,             \* backend: position of the cold start
    databaseUrl,    \* backend: settings.DATABASE_URL as the environment gives it
    imported,       \* backend: modules whose import has completed
    engine,         \* backend: database.engine
    app,            \* backend: the name `app` in api/index.py
    raised,         \* backend: the exception in flight or that ended the run
    dbInit,         \* backend: how create_db_and_tables() ended
    log,            \* backend: logger records, in order
    served          \* backend: paths answered since the lifespan's yield

frontendVars == <<taskProvider, uiProvider, calls, prev>>
backendVars == <<pc, databaseUrl, imported, engine, app, raised, dbInit, log, served>>
vars == <<taskProvider, uiProvider, calls, prev,
          pc, databaseUrl, imported, engine, app, raised, dbInit, log, served>>

----------------------------------------------------------------------------
(* Bounds *)

\* distinct truthy state objects a Provider can hold
NumStates == 2
\* accessor calls in one render pass
MaxCalls == 3
\* requests answered after startup
MaxRequests == 3

----------------------------------------------------------------------------
(* JavaScript values: [t |-> type, v |-> payload].  An object's payload is *)
(* its reference; a string's payload is its length.                        *)

Undefined == [t |-> "undefined", v |-> 0]
Null == [t |-> "null", v |-> 0]
False == [t |-> "boolean", v |-> 0]
Zero == [t |-> "number", v |-> 0]
EmptyString == [t |-> "string", v |-> 0]
Object(ref) == [t |-> "object", v |-> ref]

FalsyValues == {Undefined, Null, False, Zero, EmptyString}
StateObjects == {Object(r) : r \in 1..NumStates}
\* what a Provider's value prop can be given
ProviderValues == FalsyValues \cup StateObjects

\* ToBoolean, as `!context` applies it
Truthy(x) ==
    CASE x.t = "undefined" -> FALSE
      [] x.t = "null" -> FALSE
      [] x.t = "boolean" -> x.v = 1
      [] x.t = "number" -> x.v # 0
      [] x.t = "string" -> x.v # 0
      [] OTHER -> TRUE

\* { ...x }: a new object (a reference no Provider holds) for an object
Copy(x, n) == IF x.t = "object" THEN Object(x.v + (n + 1) * (NumStates + 1)) ELSE x

----------------------------------------------------------------------------
(* Outcomes of a call *)

Return(x) == [kind |-> "return", value |-> x, message |-> ""]
Throw(msg) == [kind |-> "throw", value |-> Undefined, message |-> msg]

TaskProviderMissing == "useTask must be used within a TaskProvider"
UIProviderMissing == "useUI must be used within a UIProvider"

----------------------------------------------------------------------------
(* Contexts and React's lookup *)

Unmounted == [mounted |-> FALSE, value |-> Undefined]

\* createContext(undefined), with the Provider above the caller if any
TaskContext == [defaultValue |-> Undefined, provider |-> taskProvider]
UIContext == [defaultValue |-> Undefined, provider |-> uiProvider]

\* the nearest Provider's value, or the context's default without one
useContext(Context) ==
    IF Context.provider.mounted THEN Context.provider.value
    ELSE Context.defaultValue

----------------------------------------------------------------------------
(* The accessors *)

NoCall == [hook |-> "none", outcome |-> Throw(""), task |-> Unmounted, ui |-> Unmounted]

useTask_NoGuard == Return(useContext(TaskContext))

useTask_Cached ==
    IF prev.hook = "useTask" /\ prev.outcome.kind = "return" THEN prev.outcome
    ELSE LET context == useContext(TaskContext)
         IN IF ~Truthy(context) THEN Throw(TaskProviderMissing) ELSE Return(context)

useTask_FreshCopy ==
    LET context == useContext(TaskContext)
    IN IF ~Truthy(context) THEN Throw(TaskProviderMissing)
       ELSE Return(Copy(context, Len(calls)))

useTask_StrictUndefined ==
    LET context == useContext(TaskContext)
    IN IF context = Undefined THEN Throw(TaskProviderMissing) ELSE Return(context)

useTask ==
    LET context == useContext(TaskContext)
    IN IF ~Truthy(context) THEN Throw(TaskProviderMissing) ELSE Return(context)

useUI_Copy ==
    LET context == useContext(UIContext)
    IN IF ~Truthy(context) THEN Throw(UIProviderMissing) ELSE Return(Copy(context, 0))

useUI_ReadsTaskContext ==
    LET context == useContext(TaskContext)
    IN IF ~Truthy(context) THEN Throw(UIProviderMissing) ELSE Return(context)

useUI ==
    LET context == useContext(UIContext)
    IN IF ~Truthy(context) THEN Throw(UIProviderMissing) ELSE Return(context)

----------------------------------------------------------------------------
(* Frontend actions *)

Call(hook, outcome) ==
    [hook |-> hook, outcome |-> outcome, task |-> taskProvider, ui |-> uiProvider]

\* a Provider change ends the render pass: its last call is remembered
EndRenderPass ==
    /\ calls' = <<>>
    /\ prev' = IF calls = <<>> THEN prev ELSE calls[Len(calls)]

CallUseTask ==
    /\ Len(calls) < MaxCalls
    /\ calls' = Append(calls, Call("useTask", useTask))
    /\ UNCHANGED <<taskProvider, uiProvider, prev>>
    /\ UNCHANGED backendVars

CallUseUI_Consumes ==
    /\ Len(calls) < MaxCalls
    /\ calls' = Append(calls, Call("useUI", useUI))
    /\ uiProvider' = Unmounted
    /\ UNCHANGED <<taskProvider, prev>>
    /\ UNCHANGED backendVars

CallUseUI ==
    /\ Len(calls) < MaxCalls
    /\ calls' = Append(calls, Call("useUI", useUI))
    /\ UNCHANGED <<taskProvider, uiProvider, prev>>
    /\ UNCHANGED backendVars

MountTaskProvider ==
    /\ ~taskProvider.mounted
    /\ \E s \in ProviderValues : taskProvider' = [mounted |-> TRUE, value |-> s]
    /\ EndRenderPass
    /\ UNCHANGED uiProvider
    /\ UNCHANGED backendVars

UpdateTaskProvider ==
    /\ taskProvider.mounted
    /\ \E s \in ProviderValues \ {taskProvider.value} :
          taskProvider' = [mounted |-> TRUE, value |-> s]
    /\ EndRenderPass
    /\ UNCHANGED uiProvider
    /\ UNCHANGED backendVars

UnmountTaskProvider ==
    /\ taskProvider.mounted
    /\ taskProvider' = Unmounted
    /\ EndRenderPass
    /\ UNCHANGED uiProvider
    /\ UNCHANGED backendVars

MountUIProvider ==
    /\ ~uiProvider.mounted
    /\ \E s \in ProviderValues : uiProvider' = [mounted |-> TRUE, value |-> s]
    /\ EndRenderPass
    /\ UNCHANGED taskProvider
    /\ UNCHANGED backendVars

UpdateUIProvider ==
    /\ uiProvider.mounted
    /\ \E s \in ProviderValues \ {uiProvider.value} :
          uiProvider' = [mounted |-> TRUE, value |-> s]
    /\ EndRenderPass
    /\ UNCHANGED taskProvider
    /\ UNCHANGED backendVars

UnmountUIProvider ==
    /\ uiProvider.mounted
    /\ uiProvider' = Unmounted
    /\ EndRenderPass
    /\ UNCHANGED taskProvider
    /\ UNCHANGED backendVars

InitFrontend ==
    /\ taskProvider = Unmounted
    /\ uiProvider = Unmounted
    /\ calls = <<>>
    /\ prev = NoCall

ColdStart ==
    /\ pc = "cold"
    /\ imported = {}
    /\ engine = "unset"
    /\ app = "unset"
    /\ raised = "none"
    /\ dbInit = "pending"
    /\ log = <<>>
    /\ served = <<>>

\* the frontend alone: the backend stays cold
InitBackendIdle == ColdStart /\ databaseUrl = "postgresql"

Init == InitFrontend /\ InitBackendIdle

Next ==
    \/ CallUseTask
    \/ CallUseUI
    \/ MountTaskProvider
    \/ UpdateTaskProvider
    \/ UnmountTaskProvider
    \/ MountUIProvider
    \/ UpdateUIProvider
    \/ UnmountUIProvider

Spec == Init /\ [][Next]_vars

----------------------------------------------------------------------------
(* Properties of the accessors (checked under Spec) *)

\* every call on record: those of the current render pass and the last one before it
Recorded ==
    {calls[i] : i \in DOMAIN calls} \cup (IF prev.hook = "none" THEN {} ELSE {prev})

\* the Provider of the call's own context, as it was when the call was made
OwnProvider(c) == IF c.hook = "useTask" THEN c.task ELSE c.ui

\* the error of the call's own accessor
OwnMessage(c) == IF c.hook = "useTask" THEN TaskProviderMissing ELSE UIProviderMissing

\* C1: an accessor called while its own Provider is not mounted always throws its
\* own missing-provider error; it never returns undefined, a default or anything else.
C1_MissingProviderThrows ==
    \A c \in Recorded :
        ~OwnProvider(c).mounted =>
            /\ c.outcome.kind = "throw"
            /\ c.hook = "useTask" => c.outcome.message = "useTask must be used within a TaskProvider"
            /\ c.hook = "useUI" => c.outcome.message = "useUI must be used within a UIProvider"

C1_Witness ==
    /\ Len(calls) = 2
    /\ calls[1].hook = "useTask" /\ calls[2].hook = "useUI"
    /\ ~taskProvider.mounted /\ ~uiProvider.mounted
    /\ calls[1].outcome.kind = "throw" /\ calls[2].outcome.kind = "throw"

\* C2 as stated: under its mounted Provider holding S, for every S the Provider can
\* expose, the accessor returns exactly S.
C2_ReturnsEveryState ==
    \A c \in Recorded :
        OwnProvider(c).mounted => c.outcome = Return(OwnProvider(c).value)

\* C2 amended: under its mounted Provider holding a truthy S, the accessor returns
\* exactly S (same reference, no copy, no substitution); for a falsy S it returns nothing.
C2_ReturnsTruthyState ==
    \A c \in Recorded :
        OwnProvider(c).mounted =>
            /\ OwnProvider(c).value \notin FalsyValues => c.outcome = Return(OwnProvider(c).value)
            /\ OwnProvider(c).value \in FalsyValues => c.outcome.kind # "return"

C2_Witness ==
    \E c \in Recorded, d \in Recorded :
        /\ c.hook = "useTask" /\ c.task.mounted /\ c.task.value \in StateObjects
        /\ c.outcome = Return(c.task.value)
        /\ d.hook = "useUI" /\ d.ui.mounted /\ d.ui.value \in StateObjects
        /\ d.outcome = Return(d.ui.value)

\* two calls of the same accessor that saw the same own Provider ended the same
\* way, whatever the other Provider was
SameOwnSameOutcome ==
    \A c \in Recorded, d \in Recorded :
        (c.hook = d.hook /\ OwnProvider(c) = OwnProvider(d)) => c.outcome = d.outcome

\* C3 as stated: each accessor's outcome depends on its own context only, and with
\* only a UIProvider mounted useUI returns the UI state while useTask throws its error.
C3_IndependentAnyState ==
    /\ SameOwnSameOutcome
    /\ \A c \in Recorded :
          (c.ui.mounted /\ ~c.task.mounted) =>
              /\ c.hook = "useUI" => c.outcome = Return(c.ui.value)
              /\ c.hook = "useTask" => c.outcome = Throw("useTask must be used within a TaskProvider")

\* C3 amended: each accessor's outcome depends on its own context only, and with
\* only a UIProvider mounted, holding a truthy state, useUI returns that state while
\* useTask throws its error.
C3_Independent ==
    /\ SameOwnSameOutcome
    /\ \A c \in Recorded :
          (c.ui.mounted /\ c.ui.value \notin FalsyValues /\ ~c.task.mounted) =>
              /\ c.hook = "useUI" => c.outcome = Return(c.ui.value)
              /\ c.hook = "useTask" => c.outcome = Throw("useTask must be used within a TaskProvider")

\* useUI returned the same UI state with the TaskProvider absent and present
C3_Witness ==
    /\ prev.hook = "useUI" /\ prev.ui.mounted /\ ~prev.task.mounted
    /\ prev.outcome = Return(prev.ui.value)
    /\ \E i \in DOMAIN calls :
          /\ calls[i].hook = "useUI" /\ calls[i].ui = prev.ui
          /\ calls[i].task.mounted
          /\ calls[i].outcome = prev.outcome

\* C4 as stated: after any mounts, updates and unmounts, a call returns the value
\* the Provider holds now, and throws the missing-provider error if it is unmounted now.
C4_CurrentValueAnyState ==
    \A i \in DOMAIN calls :
        /\ calls[i].hook = "useTask" =>
              calls[i].outcome = IF taskProvider.mounted THEN Return(taskProvider.value)
                                 ELSE Throw(TaskProviderMissing)
        /\ calls[i].hook = "useUI" =>
              calls[i].outcome = IF uiProvider.mounted THEN Return(uiProvider.value)
                                 ELSE Throw(UIProviderMissing)

\* C4 amended: after any mounts, updates and unmounts, a call returns the value the
\* Provider holds now when that value is truthy, and throws the missing-provider
\* error if the Provider is unmounted now or holds a falsy value.
C4_CurrentValue ==
    \A i \in DOMAIN calls :
        /\ calls[i].hook = "useTask" =>
              calls[i].outcome =
                  IF taskProvider.mounted /\ taskProvider.value \notin FalsyValues
                  THEN Return(taskProvider.value) ELSE Throw(TaskProviderMissing)
        /\ calls[i].hook = "useUI" =>
              calls[i].outcome =
                  IF uiProvider.mounted /\ uiProvider.value \notin FalsyValues
                  THEN Return(uiProvider.value) ELSE Throw(UIProviderMissing)

\* useTask returned one state, the Provider was updated, and useTask returns the new one
C4_Witness ==
    /\ prev.hook = "useTask" /\ prev.outcome.kind = "return"
    /\ taskProvider.mounted /\ taskProvider.value # prev.outcome.value
    /\ \E i \in DOMAIN calls :
          calls[i].hook = "useTask" /\ calls[i].outcome = Return(taskProvider.value)

\* C5: calls of the same accessor within one render pass, with no Provider change
\* between them, end the same way: the same value, or the same error.
C5_StableWithinRender ==
    \A i \in DOMAIN calls, j \in DOMAIN calls :
        calls[i].hook = calls[j].hook => calls[i].outcome = calls[j].outcome

C5_Witness ==
    /\ Len(calls) >= 2
    /\ calls[1].hook = "useTask" /\ calls[2].hook = "useTask"
    /\ calls[1].outcome.kind = "return"

\* C6: an accessor call, returning or throwing, leaves both Providers (mounted or
\* not, and the value held) as they were.
C6_CallHasNoSideEffect ==
    [][Len(calls') = Len(calls) + 1 =>
          (taskProvider' = taskProvider /\ uiProvider' = uiProvider)]_vars

\* one call returned and one threw in the same render pass
C6_Witness ==
    /\ Len(calls) = 2
    /\ calls[1].outcome.kind = "return" /\ calls[2].outcome.kind = "throw"
    /\ uiProvider.mounted /\ calls[1].hook = "useUI"

\* the value the call's useContext gave
ContextSeen(c) == IF OwnProvider(c).mounted THEN OwnProvider(c).value ELSE Undefined

\* C10: an accessor throws its missing-provider error exactly when the context value
\* is falsy (undefined, null, false, 0, ""), also under a mounted Provider, and
\* returns the value exactly when it is truthy.
C10_FalsinessCheck ==
    \A c \in Recorded :
        /\ ContextSeen(c) \in {Undefined, Null, False, Zero, EmptyString}
              <=> c.outcome = Throw(OwnMessage(c))
        /\ ContextSeen(c) \notin {Undefined, Null, False, Zero, EmptyString}
              <=> c.outcome = Return(ContextSeen(c))

\* a mounted Provider holding 0, and the accessor threw
C10_Witness ==
    \E i \in DOMAIN calls :
        /\ calls[i].hook = "useTask"
        /\ taskProvider.mounted /\ taskProvider.value = Zero
        /\ calls[i].outcome = Throw(TaskProviderMissing)

----------------------------------------------------------------------------
(* Backend: Python exceptions *)

\* the base class of each exception class the cold start can meet
Parent(cls) ==
    CASE cls = "Exception" -> "BaseException"
      [] cls = "RuntimeError" -> "Exception"
      [] cls = "ValueError" -> "Exception"
      [] cls = "AttributeError" -> "Exception"
      [] cls = "ArgumentError" -> "Exception"
      [] cls = "ImportError" -> "Exception"
      [] cls = "ModuleNotFoundError" -> "ImportError"
      [] cls = "OSError" -> "Exception"
      [] cls = "SSLError" -> "OSError"
      [] cls = "TimeoutError" -> "OSError"
      [] OTHER -> "BaseException"

\* whether `except cls` catches an exception of class e
RECURSIVE IsInstance(_, _)
IsInstance(e, cls) ==
    IF e = cls THEN TRUE
    ELSE IF e = "BaseException" THEN FALSE
    ELSE IsInstance(Parent(e), cls)

Info(msg) == [level |-> "INFO", msg |-> msg]
Warning(msg, e) == [level |-> "WARNING", msg |-> msg, exc |-> e]
Exc(msg, e) == [level |-> "ERROR", msg |-> msg, exc |-> e]

Logged(level, msg) == \E i \in DOMAIN log : log[i].level = level /\ log[i].msg = msg

----------------------------------------------------------------------------
(* Backend: what the environment decides *)

\* DATABASE_URL on the host: not set, or one of the two kinds _create_engine tells apart
DatabaseUrls == {"unset", "sqlite", "postgresql"}

\* src.app.main cannot be found or fails before it reaches the database module
MainImportFailures == {"ModuleNotFoundError", "ValueError"}

\* how create_db_and_tables() can end
DbInitOutcomes == {"ok", "RuntimeError", "SSLError", "TimeoutError"}

\* the paths the deployment is tested with
Paths == {"/", "/api/health"}

----------------------------------------------------------------------------
(* Backend: database.py *)

\* "ok" or the exception class raised
_create_engine ==
    IF databaseUrl = "unset" THEN {"AttributeError", "ArgumentError"}
    ELSE IF databaseUrl = "sqlite" THEN {"ok"}
    ELSE {"ok", "ModuleNotFoundError"}

----------------------------------------------------------------------------
(* Backend actions *)

\* api/index.py starts to load and reaches `from src.app.main import app`
LoadEntryPoint ==
    /\ pc = "cold"
    /\ pc' = "importing_main"
    /\ UNCHANGED <<databaseUrl, imported, engine, app, raised, dbInit, log, served>>
    /\ UNCHANGED frontendVars

\* the import of src.app.main raises before any module of the app is imported
MainImportFails ==
    /\ pc = "importing_main"
    /\ \E e \in MainImportFailures : raised' = e
    /\ pc' = "entry_except"
    /\ UNCHANGED <<databaseUrl, imported, engine, app, dbInit, log, served>>
    /\ UNCHANGED frontendVars

\* config.py: settings = Settings(), without validation
ImportConfig ==
    /\ pc = "importing_main"
    /\ imported' = imported \cup {"config"}
    /\ pc' = "importing_database"
    /\ UNCHANGED <<databaseUrl, engine, app, raised, dbInit, log, served>>
    /\ UNCHANGED frontendVars

\* database.py, module level: engine = _create_engine()
CreateEngineAtImport ==
    /\ pc = "importing_database"
    /\ \E r \in _create_engine :
          IF r = "ok"
          THEN /\ engine' = "created"
               /\ pc' = "engine_assigned"
               /\ UNCHANGED raised
          ELSE /\ raised' = r
               /\ pc' = "entry_except"
               /\ UNCHANGED engine
    /\ UNCHANGED <<databaseUrl, imported, app, dbInit, log, served>>
    /\ UNCHANGED frontendVars

\* the rest of database.py
FinishDatabaseImport ==
    /\ pc = "engine_assigned"
    /\ imported' = imported \cup {"database"}
    /\ pc' = "database_imported"
    /\ UNCHANGED <<databaseUrl, engine, app, raised, dbInit, log, served>>
    /\ UNCHANGED frontendVars

\* main.py completes; api/index.py's try block ends
EntryImportSucceeds ==
    /\ pc = "database_imported"
    /\ app' = "fastapi"
    /\ log' = Append(log, Info("FastAPI app imported successfully"))
    /\ imported' = imported \cup {"main", "index"}
    /\ pc' = "entry_loaded"
    /\ UNCHANGED <<databaseUrl, engine, raised, dbInit, served>>
    /\ UNCHANGED frontendVars

\* api/index.py's except block: log, app = error_app, raise
EntryExcept ==
    /\ pc = "entry_except"
    /\ IF IsInstance(raised, "Exception")
       THEN /\ log' = Append(log, Exc("FATAL: Failed to import", raised))
            /\ app' = "error_app"
       ELSE UNCHANGED <<log, app>>
    /\ pc' = "entry_failed"
    /\ UNCHANGED <<databaseUrl, imported, engine, raised, dbInit, served>>
    /\ UNCHANGED frontendVars

\* main.py's lifespan up to its yield
LifespanStartup ==
    /\ pc = "entry_loaded"
    /\ app = "fastapi"
    /\ \E r \in DbInitOutcomes :
         /\ dbInit' = r
         /\ IF r = "ok"
            THEN /\ log' = Append(log, Info("Database tables created/verified"))
                 /\ pc' = "yielded"
                 /\ UNCHANGED raised
            ELSE IF IsInstance(r, "RuntimeError")
            THEN /\ log' = Append(log, Warning("Database initialization failed", r))
                 /\ pc' = "yielded"
                 /\ UNCHANGED raised
            ELSE /\ raised' = r
                 /\ pc' = "startup_crashed"
                 /\ UNCHANGED log
    /\ UNCHANGED <<databaseUrl, imported, engine, app, served>>
    /\ UNCHANGED frontendVars

\* a request answered while the lifespan is suspended at its yield
ServeRequest ==
    /\ pc = "yielded"
    /\ Len(served) < MaxRequests
    /\ \E path \in Paths : served' = Append(served, path)
    /\ UNCHANGED <<pc, databaseUrl, imported, engine, app, raised, dbInit, log>>
    /\ UNCHANGED frontendVars

\* main.py's lifespan after its yield
LifespanShutdown ==
    /\ pc = "yielded"
    /\ log' = Append(log, Info("Shutting down..."))
    /\ pc' = "shutdown"
    /\ UNCHANGED <<databaseUrl, imported, engine, app, raised, dbInit, served>>
    /\ UNCHANGED frontendVars

InitBackend ==
    /\ InitFrontend
    /\ ColdStart
    /\ databaseUrl \in DatabaseUrls

NextBackend ==
    \/ LoadEntryPoint
    \/ MainImportFails
    \/ ImportConfig
    \/ CreateEngineAtImport
    \/ FinishDatabaseImport
    \/ EntryImportSucceeds
    \/ EntryExcept
    \/ LifespanStartup
    \/ ServeRequest
    \/ LifespanShutdown

SpecBackend == InitBackend /\ [][NextBackend]_vars

----------------------------------------------------------------------------
(* Properties of the cold start (checked under SpecBackend) *)

\* create_db_and_tables() was called and raised
DbInitFailed == dbInit \notin {"pending", "ok"}

\* the import of src.app.main raised and api/index.py's except block is over
ImportFailureHandled == raised # "none" /\ dbInit = "pending" /\ pc # "entry_except"

\* C7: however create_db_and_tables() fails, the failure is logged, the lifespan
\* reaches its yield and requests can be served.
C7_StartupSurvivesDbFailure ==
    DbInitFailed =>
        /\ \E i \in DOMAIN log :
              log[i] = Warning("Database initialization failed", dbInit)
        /\ pc \in {"yielded", "shutdown"}

\* C8: when the import of src.app.main fails, the error is logged, api/index.py
\* exposes the fallback handler as `app`, and loading api/index.py does not fail.
C8_FallbackAppExposed ==
    ImportFailureHandled =>
        /\ Logged("ERROR", "FATAL: Failed to import")
        /\ app = "error_app"
        /\ "index" \in imported
        /\ pc # "entry_failed"

\* C9: the engine is created only once the import of the database module has
\* completed (on first need by a request), never while the module is being imported.
C9_EngineCreatedAfterImport ==
    [][(engine = "unset" /\ engine' # "unset") =>
          ("database" \in imported /\ pc = "yielded")]_vars

=============================================================================
